---- MODULE Spec2Model ----
(***************************************************************************)
(* The 3D knowledge-graph view of GBSkillEngine: the data hook useGraph3D, *)
(* the KnowledgeGraph3D controller shell (domain selection, time range,    *)
(* node selection, client-side filter) and the DomainFilterPanel.          *)
(*                                                                         *)
(* A JavaScript value that may be null/undefined is a sequence of length   *)
(* at most one: <<>> is null/undefined, <<v>> is the value v.  The tuple   *)
(* timeRange is <<>> (undefined) or <<start, end>>.                        *)
(***************************************************************************)
EXTENDS Integers, Sequences, FiniteSets, TLC

\* ------------------------------------------------------------------ bounds
\* Largest number of nodes / edges in a dataset the server returns.
MaxNodes == 3
MaxEdges == 2
\* Largest length of the domain reference list the server returns.
MaxDomains == 2
\* Largest length of the time-slice reference list the server returns.
MaxSlices == 2
\* Largest number of graph-data requests in flight at once.
MaxInFlight == 2
\* Largest number of data pushes one renderer handle takes.
MaxPushes == 2
\* Largest number of mounts of the view.
MaxMounts == 2

\* ------------------------------------------------------------- data model
\* Graph3DNode: id, nodeType and properties.domain (absent: <<>>).
Node(id, nodeType, domain) ==
    [id |-> id, nodeType |-> nodeType, properties |-> [domain |-> domain]]

\* Graph3DEdge.
Edge(source, target, type) ==
    [source |-> source, target |-> target, type |-> type]

\* The nodes a server response is built from, in response order.
NodePool ==
    << Node("domain_a", "Domain", <<>>),
       Node("S1", "Standard", <<"a">>),
       Node("T2020", "TimeSlice", <<>>),
       Node("domain_b", "Domain", <<>>),
       Node("K1", "Skill", <<"b">>),
       Node("C1", "Category", <<>>),
       Node("E1", "Standard", <<"">>) >>

\* The edges a server response is built from; the last one references an id
\* no node carries.
EdgePool ==
    << Edge("S1", "domain_a", "BELONGS_TO"),
       Edge("S1", "domain_b", "BELONGS_TO"),
       Edge("K1", "S1", "DERIVED_FROM"),
       Edge("C1", "missing", "CHILD_OF") >>

\* The domain ids the reference list is built from.
DomainIdPool == << "domain_a", "domain_b", "domain_" >>

\* The years the time-slice reference list is built from.
YearPool == << 2024, 2018, 2020 >>

\* The elements of pool whose index is in S, in pool order.
Pick(pool, S) ==
    LET idx == SelectSeq([i \in 1..Len(pool) |-> i], LAMBDA i : i \in S)
    IN  [k \in 1..Len(idx) |-> pool[idx[k]]]

IndexSets(pool, max) == { S \in SUBSET (1..Len(pool)) : Cardinality(S) <= max }

\* By how much the server's metadata counts may exceed the arrays it returns.
CountOffsets == {0, 1}

\* Graph3DData as the server returns it.  metadata is the server's own count.
Datasets ==
    { [nodes |-> Pick(NodePool, S),
       edges |-> Pick(EdgePool, E),
       metadata |-> [totalNodes |-> Cardinality(S) + k,
                     totalEdges |-> Cardinality(E) + k]] :
        S \in IndexSets(NodePool, MaxNodes),
        E \in IndexSets(EdgePool, MaxEdges),
        k \in CountOffsets }

\* The dataset of the scenarios: D1 (Domain), S1 (Standard, domain D1),
\* T2020 (TimeSlice) and the edge S1 -> D1.
ScenarioData ==
    [nodes |-> Pick(NodePool, {1, 2, 3}),
     edges |-> Pick(EdgePool, {1}),
     metadata |-> [totalNodes |-> 3, totalEdges |-> 1]]

\* A second dataset: D2 (Domain), K1 (Skill, domain D2) and C1 (Category with
\* no domain), without edges.
SecondData ==
    [nodes |-> Pick(NodePool, {4, 5, 6}),
     edges |-> <<>>,
     metadata |-> [totalNodes |-> 3, totalEdges |-> 0]]

\* The datasets the backend holds over a session of the controller shell.
ShellDatasets == {ScenarioData, SecondData}

\* TimeSliceInfo[] as the server returns it, reduced to the years: one entry
\* per distinct year, in any order.
Years == { YearPool[i] : i \in 1..Len(YearPool) }
TimeSliceLists ==
    { l \in UNION { [1..n -> Years] : n \in 0..MaxSlices } :
        \A i, j \in 1..Len(l) : i # j => l[i] # l[j] }

\* DomainInfo[] as the server returns it: pairwise distinct domain_id.
DomainLists == { Pick(DomainIdPool, S) : S \in IndexSets(DomainIdPool, MaxDomains) }

\* ------------------------------------------------------------------ state
VARIABLES
    serverGraph,        \* the Graph3DData the backend answers visualize3D with
    devBuild,           \* React.StrictMode double invocation is active
    mounted,            \* the initial load effect has run
    loading,            \* useGraph3D loading
    data,               \* useGraph3D data: <<>> or <<Graph3DData>>
    domains,            \* useGraph3D domains: sequence of domain_id
    timeSlices,         \* useGraph3D timeSlices: sequence of year
    filters,            \* useGraph3D filters: <<>> or <<startYear, endYear>>
    pendingGraph,       \* visualize3D requests in flight: their parameters
    pendingDomains,     \* getDomains requests in flight
    pendingTimeSlices,  \* getTimeSlices requests in flight
    message,            \* the notification last raised by message.error
    selectedNode,       \* <<>> or <<Graph3DNode>>
    detailVisible,
    selectedDomains,    \* sequence of domain_id
    timeRange,          \* <<>> or <<start, end>>
    isFullscreen,
    domainsInitialized, \* the ref domainsInitialized.current
    \* History, read by the properties only:
    lastSelectOp,       \* "none", "click" or "close": the last selection event
    prevSelected,       \* selectedNode before the last selection event
    domainInits,        \* how often the effect on [domains] set the selection
    timeRangeInits,     \* how often the effect on [timeSlices, timeRange]
                        \* set the range
    \* Graph3DCanvas and the renderer it drives:
    canvasMounted,      \* the canvas component is mounted
    instance,           \* number of the component instance, 0 before a mount
    graphRef,           \* graphRef.current: <<>> (null) or <<handle id>>
    handles,            \* the renderer handles created so far, by id
    timers,             \* pending zoom-to-fit timeouts, oldest first
    observing,          \* the ResizeObserver is connected
    containerWidth,     \* width of the container element
    cursor,             \* container.style.cursor
    callbackProps,      \* the onNodeClick / onNodeHover props of the latest
                        \* render of the parent: <<>> (none) or <<callback>>
    callbackRefs,       \* onNodeClickRef.current / onNodeHoverRef.current
    dispatched,         \* <<>> or <<the last call of a callback by the
                        \* renderer's click or hover handler>>
    \* History of the graph-data requests, read by the properties only:
    lastIssuer,         \* "none", "mount", "refresh" or "range": what issued
                        \* the latest request
    overtaken,          \* per request in flight: a request issued after it
                        \* has already resolved with a dataset
    lastResolved        \* <<>> or <<the latest resolution>>: ok, the
                        \* parameters of the request, and stale (a younger
                        \* request had resolved with a dataset before it)

envVars == << serverGraph, devBuild >>

hookVars == << loading, data, domains, timeSlices, filters,
               pendingGraph, pendingDomains, pendingTimeSlices, message >>

selVars == << selectedNode, detailVisible, lastSelectOp, prevSelected >>

domVars == << selectedDomains, domainsInitialized, domainInits >>

timeVars == << timeRange, timeRangeInits >>

\* The callback props of the canvas and the refs that hold them.
callbackVars == << callbackProps, callbackRefs, dispatched >>

canvasVars == << canvasMounted, instance, graphRef, handles, timers,
                 observing, containerWidth, cursor, callbackVars >>

requestHistory == << lastIssuer, overtaken, lastResolved >>

\* What the operations of the shell alone leave unchanged.
besideShell == << canvasVars, requestHistory >>

vars == << envVars, mounted, hookVars, selVars, domVars, timeVars, isFullscreen,
          canvasVars, requestHistory >>

\* ---------------------------------------------------------------- helpers
\* Array.prototype.includes.
Includes(seq, x) == \E i \in 1..Len(seq) : seq[i] = x

\* Array.prototype.map(d => d.domain_id) over the reference list.
DomainIds(list) == list

\* The sequence s without its i-th element.
RemoveAt(s, i) == [k \in 1..(Len(s) - 1) |-> IF k < i THEN s[k] ELSE s[k + 1]]

\* JavaScript truthiness of properties.domain: absent and "" are falsy.
Truthy(p) == Len(p) = 1 /\ p[1] # ""

\* years.sort((a, b) => a - b): ascending numeric order.
RECURSIVE SortYears(_)
SortYears(years) ==
    IF Len(years) <= 1 THEN years
    ELSE LET m == CHOOSE i \in 1..Len(years) :
                      \A j \in 1..Len(years) : years[i] <= years[j]
         IN  << years[m] >> \o SortYears(RemoveAt(years, m))

\* The query parameters loadGraphData sends for params: a year is sent only
\* when it is truthy (not 0).
QueryParams(params) ==
    IF params = <<>> THEN {}
    ELSE (IF params[1] # 0 THEN { << "start_year", params[1] >> } ELSE {})
         \cup (IF params[2] # 0 THEN { << "end_year", params[2] >> } ELSE {})

\* The text passed to message.error when visualize3D fails.
GraphLoadError == "graph-data-load-failed"

\* How often React invokes an effect body or a state updater.
Invocations == IF devBuild THEN 2 ELSE 1

\* ----------------------------------------------------------- filter engine
\* RetainNode with the Domain branch lost: a Domain node is always kept.
RetainNode_DomainAlways(node, selected) ==
    IF node.nodeType = "Domain" \/ node.nodeType = "TimeSlice" THEN TRUE
    ELSE IF ~Truthy(node.properties.domain) THEN FALSE
    ELSE Includes(selected, "domain_" \o node.properties.domain[1])

\* RetainNode with the TimeSlice branch lost: a TimeSlice node is filtered by
\* its domain property like any other node.
RetainNode_NoTimeSlice(node, selected) ==
    IF node.nodeType = "Domain" THEN Includes(selected, node.id)
    ELSE IF ~Truthy(node.properties.domain) THEN FALSE
    ELSE Includes(selected, "domain_" \o node.properties.domain[1])

\* RetainNode with the "domain_" prefix lost in the derived domain-node id.
RetainNode_NoPrefix(node, selected) ==
    IF node.nodeType = "Domain" THEN Includes(selected, node.id)
    ELSE IF node.nodeType = "TimeSlice" THEN TRUE
    ELSE IF ~Truthy(node.properties.domain) THEN FALSE
    ELSE Includes(selected, node.properties.domain[1])

\* The predicate of data.nodes.filter(...).
RetainNode(node, selected) ==
    IF node.nodeType = "Domain" THEN Includes(selected, node.id)
    ELSE IF node.nodeType = "TimeSlice" THEN TRUE
    ELSE IF ~Truthy(node.properties.domain) THEN FALSE
    ELSE Includes(selected, "domain_" \o node.properties.domain[1])

FilterNodes(nodes, selected) ==
    SelectSeq(nodes, LAMBDA n : RetainNode(n, selected))

\* new Set(filteredNodes.map(n => n.id)).
NodeIds(nodes) == { nodes[i].id : i \in 1..Len(nodes) }

FilterEdges(edges, nodeIds) ==
    SelectSeq(edges, LAMBDA e : e.source \in nodeIds /\ e.target \in nodeIds)

\* ShortCircuit without the domains.length > 0 conjunct: an empty selection
\* under an empty reference list counts as a full selection.
ShortCircuit_NoLengthGuard(selected, doms) == Len(selected) = Len(doms)

\* The test of the identity short-circuit.
ShortCircuit(selected, doms) == Len(selected) = Len(doms) /\ Len(doms) > 0

\* The useMemo reading an empty selection as "no filter": the dataset is
\* returned as it is when nothing is selected.
Filter_EmptyMeansAll(d, selected, doms) ==
    IF ShortCircuit(selected, doms) \/ Len(selected) = 0 THEN d
    ELSE LET filteredNodes == FilterNodes(d.nodes, selected)
             filteredEdges == FilterEdges(d.edges, NodeIds(filteredNodes))
         IN  [d EXCEPT !.nodes = filteredNodes,
                       !.edges = filteredEdges,
                       !.metadata = [d.metadata EXCEPT
                                       !.totalNodes = Len(filteredNodes),
                                       !.totalEdges = Len(filteredEdges)]]

\* The body of the useMemo, for a dataset d.
Filter(d, selected, doms) ==
    IF ShortCircuit(selected, doms) THEN d
    ELSE LET filteredNodes == FilterNodes(d.nodes, selected)
             filteredEdges == FilterEdges(d.edges, NodeIds(filteredNodes))
         IN  [d EXCEPT !.nodes = filteredNodes,
                       !.edges = filteredEdges,
                       !.metadata = [d.metadata EXCEPT
                                       !.totalNodes = Len(filteredNodes),
                                       !.totalEdges = Len(filteredEdges)]]

\* filteredData: <<>> (null) or <<Graph3DData>>.
filteredData ==
    IF data = <<>> THEN <<>> ELSE << Filter(data[1], selectedDomains, domains) >>

\* array.filter(n => n.nodeType === t).length.
CountType(nodes, t) == Len(SelectSeq(nodes, LAMBDA n : n.nodeType = t))

\* stats: the four numbers of the statistics bar.
stats ==
    IF filteredData = <<>>
    THEN [nodes |-> 0, edges |-> 0, standards |-> 0, skills |-> 0]
    ELSE [nodes     |-> filteredData[1].metadata.totalNodes,
          edges     |-> filteredData[1].metadata.totalEdges,
          standards |-> CountType(filteredData[1].nodes, "Standard"),
          skills    |-> CountType(filteredData[1].nodes, "Skill")]

\* ------------------------------------------------------------ environment
\* The widths the layout gives the container element.
Widths == {0, 300, 800}

\* window.innerHeight.
WindowInnerHeight == 1000

\* ------------------------------------------------------------------- init
InitShell ==
    /\ devBuild \in BOOLEAN
    /\ mounted = FALSE
    /\ loading = TRUE
    /\ data = <<>>
    /\ domains = <<>>
    /\ timeSlices = <<>>
    /\ filters = <<>>
    /\ pendingGraph = <<>>
    /\ pendingDomains = 0
    /\ pendingTimeSlices = 0
    /\ message = ""
    /\ selectedNode = <<>>
    /\ detailVisible = FALSE
    /\ selectedDomains = <<>>
    /\ timeRange = <<>>
    /\ isFullscreen = FALSE
    /\ domainsInitialized = FALSE
    /\ lastSelectOp = "none"
    /\ prevSelected = <<>>
    /\ domainInits = 0
    /\ timeRangeInits = 0

\* The callbacks the shell renders the canvas with: handleNodeClick and no
\* onNodeHover.
ShellCallbacks == [click |-> << "handleNodeClick" >>, hover |-> <<>>]

\* The refs of a canvas that has not rendered.
NoCallbacks == [click |-> <<>>, hover |-> <<>>]

\* Before the first mount of the canvas, in a container of one of the widths W.
InitRenderer(W) ==
    /\ canvasMounted = FALSE
    /\ instance = 0
    /\ graphRef = <<>>
    /\ handles = <<>>
    /\ timers = <<>>
    /\ observing = FALSE
    /\ containerWidth \in W
    /\ cursor = ""
    /\ callbackProps = ShellCallbacks
    /\ callbackRefs = NoCallbacks
    /\ dispatched = <<>>

\* No graph-data request has been issued.
InitRequestHistory ==
    /\ lastIssuer = "none"
    /\ overtaken = <<>>
    /\ lastResolved = <<>>

\* ------------------------------------------------------------ useGraph3D
\* The initial load effect awaiting each fetch in turn: only the graph-data
\* request is issued by the effect body.
InitialLoad_AwaitEach ==
    /\ ~mounted
    /\ mounted' = TRUE
    /\ loading' = TRUE
    /\ pendingGraph' = [k \in 1..Invocations |-> QueryParams(<<>>)]
    /\ UNCHANGED << envVars, data, domains, timeSlices, filters, message,
                    pendingDomains, pendingTimeSlices,
                    selVars, domVars, timeVars, isFullscreen >>

\* The initial load effect: loadGraphData(), loadDomains(), loadTimeSlices(),
\* once per invocation of the effect body.
InitialLoad ==
    /\ ~mounted
    /\ mounted' = TRUE
    /\ loading' = TRUE
    /\ pendingGraph' = [k \in 1..Invocations |-> QueryParams(<<>>)]
    /\ pendingDomains' = Invocations
    /\ pendingTimeSlices' = Invocations
    /\ UNCHANGED << envVars, data, domains, timeSlices, filters, message,
                    selVars, domVars, timeVars, isFullscreen >>

\* loadGraphData that drops the response of every request but the youngest.
loadGraphDataOk_LatestOnly(i) ==
    /\ i \in 1..Len(pendingGraph)
    /\ pendingGraph' = RemoveAt(pendingGraph, i)
    /\ data' = IF i = Len(pendingGraph) THEN << serverGraph >> ELSE data
    /\ loading' = FALSE
    /\ UNCHANGED << envVars, mounted, domains, timeSlices, filters,
                    pendingDomains, pendingTimeSlices, message,
                    selVars, domVars, timeVars, isFullscreen >>

\* loadGraphData: request i resolves with the server's dataset.
loadGraphDataOk(i) ==
    /\ i \in 1..Len(pendingGraph)
    /\ pendingGraph' = RemoveAt(pendingGraph, i)
    /\ data' = << serverGraph >>
    /\ loading' = FALSE
    /\ UNCHANGED << envVars, mounted, domains, timeSlices, filters,
                    pendingDomains, pendingTimeSlices, message,
                    selVars, domVars, timeVars, isFullscreen >>

\* loadGraphData whose catch block clears the dataset.
loadGraphDataFail_ClearsData(i) ==
    /\ i \in 1..Len(pendingGraph)
    /\ pendingGraph' = RemoveAt(pendingGraph, i)
    /\ data' = <<>>
    /\ message' = GraphLoadError
    /\ loading' = FALSE
    /\ UNCHANGED << envVars, mounted, domains, timeSlices, filters,
                    pendingDomains, pendingTimeSlices,
                    selVars, domVars, timeVars, isFullscreen >>

\* loadGraphData: request i is rejected.
loadGraphDataFail(i) ==
    /\ i \in 1..Len(pendingGraph)
    /\ pendingGraph' = RemoveAt(pendingGraph, i)
    /\ message' = GraphLoadError
    /\ loading' = FALSE
    /\ UNCHANGED << envVars, mounted, data, domains, timeSlices, filters,
                    pendingDomains, pendingTimeSlices,
                    selVars, domVars, timeVars, isFullscreen >>

\* InitDomainsGuard without the one-shot ref: the effect selects every domain
\* whenever a non-empty list arrives.
InitDomainsGuard_NoRef(list) == Len(list) > 0

\* The condition of the effect on [domains], run after the reference list
\* became list.
InitDomainsGuard(list) == Len(list) > 0 /\ ~domainsInitialized

\* loadDomains resolves with list; the effect on [domains] follows the commit.
loadDomainsOk(list) ==
    /\ pendingDomains > 0
    /\ pendingDomains' = pendingDomains - 1
    /\ domains' = list
    /\ IF InitDomainsGuard(list)
       THEN /\ selectedDomains' = DomainIds(list)
            /\ domainsInitialized' = TRUE
            /\ domainInits' = domainInits + 1
       ELSE UNCHANGED domVars
    /\ UNCHANGED << envVars, mounted, loading, data, timeSlices, filters,
                    pendingGraph, pendingTimeSlices, message,
                    selVars, timeVars, isFullscreen >>

\* loadDomains whose catch block raises a notification as loadGraphData's
\* does.
loadDomainsFail_Notifies ==
    /\ pendingDomains > 0
    /\ pendingDomains' = pendingDomains - 1
    /\ message' = "domain-list-load-failed"
    /\ UNCHANGED << envVars, mounted, loading, data, domains, timeSlices,
                    filters, pendingGraph, pendingTimeSlices,
                    selVars, domVars, timeVars, isFullscreen >>

\* loadDomains is rejected: console.error only.
loadDomainsFail ==
    /\ pendingDomains > 0
    /\ pendingDomains' = pendingDomains - 1
    /\ UNCHANGED << envVars, mounted, loading, data, domains, timeSlices,
                    filters, pendingGraph, pendingTimeSlices, message,
                    selVars, domVars, timeVars, isFullscreen >>

\* InitTimeRangeGuard without the test of timeRange: the effect sets the range
\* whenever a non-empty list arrives.
InitTimeRangeGuard_NoRangeTest(list) == Len(list) > 0

\* The condition of the effect on [timeSlices, timeRange], run after the
\* reference list became list.
InitTimeRangeGuard(list) == Len(list) > 0 /\ timeRange = <<>>

\* The range the effect sets: the least and the greatest year of the list.
InitialTimeRange(list) ==
    LET years == SortYears(list) IN << years[1], years[Len(years)] >>

\* loadTimeSlices resolves with list; the effect on [timeSlices, timeRange]
\* follows the commit.
loadTimeSlicesOk(list) ==
    /\ pendingTimeSlices > 0
    /\ pendingTimeSlices' = pendingTimeSlices - 1
    /\ timeSlices' = list
    /\ IF InitTimeRangeGuard(list)
       THEN /\ timeRange' = InitialTimeRange(list)
            /\ timeRangeInits' = timeRangeInits + 1
       ELSE UNCHANGED timeVars
    /\ UNCHANGED << envVars, mounted, loading, data, domains, filters,
                    pendingGraph, pendingDomains, message,
                    selVars, domVars, isFullscreen >>

\* loadTimeSlices is rejected: console.error only.
loadTimeSlicesFail ==
    /\ pendingTimeSlices > 0
    /\ pendingTimeSlices' = pendingTimeSlices - 1
    /\ UNCHANGED << envVars, mounted, loading, data, domains, timeSlices,
                    filters, pendingGraph, pendingDomains, message,
                    selVars, domVars, timeVars, isFullscreen >>

\* refresh that calls loadGraphData() without the filter parameters.
refresh_NoParams ==
    /\ mounted
    /\ ~loading
    /\ Len(pendingGraph) < MaxInFlight
    /\ loading' = TRUE
    /\ pendingGraph' = Append(pendingGraph, QueryParams(<<>>))
    /\ UNCHANGED << envVars, mounted, data, domains, timeSlices, filters,
                    pendingDomains, pendingTimeSlices, message,
                    selVars, domVars, timeVars, isFullscreen >>

\* refresh: loadGraphData(filters).  The button is rendered with
\* loading={loading} and takes no click while loading.
refresh ==
    /\ mounted
    /\ ~loading
    /\ Len(pendingGraph) < MaxInFlight
    /\ loading' = TRUE
    /\ pendingGraph' = Append(pendingGraph, QueryParams(filters))
    /\ UNCHANGED << envVars, mounted, data, domains, timeSlices, filters,
                    pendingDomains, pendingTimeSlices, message,
                    selVars, domVars, timeVars, isFullscreen >>

\* ------------------------------------------------------ DomainFilterPanel
handleSelectAll ==
    /\ mounted
    /\ selectedDomains' =
          IF Len(selectedDomains) = Len(domains) THEN <<>> ELSE DomainIds(domains)
    /\ UNCHANGED << envVars, mounted, hookVars, selVars, domainsInitialized,
                    domainInits, timeVars, isFullscreen >>

\* handleToggle without the test of membership: the id is appended whether
\* or not it is selected.
handleToggle_AppendAlways(domainId) ==
    /\ Includes(domains, domainId)
    /\ selectedDomains' = Append(selectedDomains, domainId)
    /\ UNCHANGED << envVars, mounted, hookVars, selVars, domainsInitialized,
                    domainInits, timeVars, isFullscreen >>

\* A click on the row of domainId, one of the rows rendered from domains.
handleToggle(domainId) ==
    /\ Includes(domains, domainId)
    /\ selectedDomains' =
          IF Includes(selectedDomains, domainId)
          THEN SelectSeq(selectedDomains, LAMBDA id : id # domainId)
          ELSE Append(selectedDomains, domainId)
    /\ UNCHANGED << envVars, mounted, hookVars, selVars, domainsInitialized,
                    domainInits, timeVars, isFullscreen >>

\* ------------------------------------------------------ KnowledgeGraph3D
\* handleNodeClick as a toggle: a click on the selected node deselects it.
handleNodeClick_Toggle(node) ==
    /\ filteredData # <<>>
    /\ Includes(filteredData[1].nodes, node)
    /\ IF selectedNode = << node >>
       THEN selectedNode' = <<>> /\ detailVisible' = FALSE
       ELSE selectedNode' = << node >> /\ detailVisible' = TRUE
    /\ lastSelectOp' = "click"
    /\ prevSelected' = selectedNode
    /\ UNCHANGED << envVars, mounted, hookVars, domVars, timeVars,
                    isFullscreen >>

\* The renderer reports a click on node, one of the nodes it was handed.
handleNodeClick(node) ==
    /\ filteredData # <<>>
    /\ Includes(filteredData[1].nodes, node)
    /\ selectedNode' = << node >>
    /\ detailVisible' = TRUE
    /\ lastSelectOp' = "click"
    /\ prevSelected' = selectedNode
    /\ UNCHANGED << envVars, mounted, hookVars, domVars, timeVars,
                    isFullscreen >>

\* onClose that hides the drawer and keeps the selected node.
onClose_KeepNode ==
    /\ detailVisible
    /\ detailVisible' = FALSE
    /\ lastSelectOp' = "close"
    /\ prevSelected' = selectedNode
    /\ UNCHANGED << envVars, mounted, hookVars, selectedNode, domVars,
                    timeVars, isFullscreen >>

\* NodeDetailPanel onClose, of the open drawer.
onClose ==
    /\ detailVisible
    /\ detailVisible' = FALSE
    /\ selectedNode' = <<>>
    /\ lastSelectOp' = "close"
    /\ prevSelected' = selectedNode
    /\ UNCHANGED << envVars, mounted, hookVars, domVars, timeVars,
                    isFullscreen >>

\* TimeAxisController: the least and greatest value of the slider.
SliderMin == IF timeSlices = <<>> THEN 2018 ELSE SortYears(timeSlices)[1]
SliderMax == IF timeSlices = <<>> THEN 2024
             ELSE SortYears(timeSlices)[Len(timeSlices)]

\* handleTimeRangeChange that also hides the detail drawer.
handleTimeRangeChange_ClosesPanel(range) ==
    /\ mounted
    /\ SliderMin <= range[1] /\ range[1] <= range[2] /\ range[2] <= SliderMax
    /\ Len(pendingGraph) + Invocations <= MaxInFlight
    /\ timeRange' = range
    /\ filters' = range
    /\ loading' = TRUE
    /\ pendingGraph' =
          pendingGraph \o [k \in 1..Invocations |-> QueryParams(range)]
    /\ detailVisible' = FALSE
    /\ UNCHANGED << envVars, mounted, data, domains, timeSlices,
                    pendingDomains, pendingTimeSlices, message,
                    selectedNode, lastSelectOp, prevSelected,
                    domVars, timeRangeInits, isFullscreen >>

\* handleTimeRangeChange(range): setTimeRange, then updateFilters, whose state
\* updater calls loadGraphData(updated) each time React invokes it.
handleTimeRangeChange(range) ==
    /\ mounted
    /\ SliderMin <= range[1] /\ range[1] <= range[2] /\ range[2] <= SliderMax
    /\ Len(pendingGraph) + Invocations <= MaxInFlight
    /\ timeRange' = range
    /\ filters' = range
    /\ loading' = TRUE
    /\ pendingGraph' =
          pendingGraph \o [k \in 1..Invocations |-> QueryParams(range)]
    /\ UNCHANGED << envVars, mounted, data, domains, timeSlices,
                    pendingDomains, pendingTimeSlices, message,
                    selVars, domVars, timeRangeInits, isFullscreen >>

toggleFullscreen ==
    /\ isFullscreen' = ~isFullscreen
    /\ UNCHANGED << envVars, mounted, hookVars, selVars, domVars, timeVars >>

\* The backend's graph changes between two requests.
serverUpdate ==
    /\ serverGraph' \in ShellDatasets \ {serverGraph}
    /\ UNCHANGED << devBuild, mounted, hookVars, selVars, domVars, timeVars,
                    isFullscreen >>

\* ----------------------------------------------------------- Graph3DCanvas
\* The state of the shell, the hook and the panels.
shellVars == << envVars, mounted, hookVars, selVars, domVars, timeVars,
                isFullscreen >>

\* Least width the init effect and the height effect give the renderer.
MinWidth == 400

\* The height prop outside fullscreen.
DefaultHeight == 600

\* The height prop the shell passes to Graph3DCanvas.
Height(fullscreen) ==
    IF fullscreen THEN WindowInnerHeight - 200 ELSE DefaultHeight

\* Math.max.
Max(a, b) == IF a >= b THEN a ELSE b

\* The refs and the renderer state the effects of the canvas work on.
CanvasState ==
    [graphRef |-> graphRef, handles |-> handles, timers |-> timers,
     observing |-> observing]

\* The record the data effect builds for a node: a new object with the
\* fields of the node and the coordinates pinned to its position.
CopyNode(n) ==
    [id |-> n.id, nodeType |-> n.nodeType, properties |-> n.properties,
     pinned |-> TRUE]

\* The record the data effect builds for an edge.
CopyLink(e) == [source |-> e.source, target |-> e.target, type |-> e.type]

\* graphData handed over without copying: the renderer holds the node and
\* edge objects of the dataset it was given.
RendererData_NoCopy(d) ==
    [nodes |-> d.nodes, links |-> d.edges, shared |-> TRUE, ticked |-> FALSE]

\* The graphData object of the data effect for dataset d.  shared: the
\* records are objects of the dataset itself; ticked: the renderer's
\* simulation has written into the records.
RendererData(d) ==
    [nodes  |-> [i \in 1..Len(d.nodes) |-> CopyNode(d.nodes[i])],
     links  |-> [i \in 1..Len(d.edges) |-> CopyLink(d.edges[i])],
     shared |-> FALSE,
     ticked |-> FALSE]

\* The handle ForceGraph3D()(container).width(w).height(h) ... returns.
NewHandle(w, h) ==
    [live |-> TRUE, width |-> w, height |-> h, graphData |-> <<>>,
     pushes |-> 0, zooms |-> 0]

\* The init effect: a handle is created on the container and stored in
\* graphRef.  The id of a handle is its position in handles.
InitEffect(c, w, h) ==
    [c EXCEPT !.handles = Append(@, NewHandle(Max(w, MinWidth), h)),
              !.graphRef = << Len(c.handles) + 1 >>]

\* The cleanup with the call of _destructor lost: the ref is cleared and the
\* handle stays live.
InitCleanup_NoDestructor(c) == [c EXCEPT !.graphRef = <<>>]

\* A handle after _destructor: what it held is released.
Destroyed ==
    [live |-> FALSE, width |-> 0, height |-> 0, graphData |-> <<>>,
     pushes |-> 0, zooms |-> 0]

\* The cleanup that destroys the handle and leaves it in graphRef.
InitCleanup_KeepsRef(c) ==
    IF c.graphRef # <<>>
    THEN [c EXCEPT !.handles[c.graphRef[1]] = Destroyed]
    ELSE c

\* The cleanup of the init effect.
InitCleanup(c) ==
    IF c.graphRef # <<>>
    THEN [c EXCEPT !.handles[c.graphRef[1]] = Destroyed, !.graphRef = <<>>]
    ELSE c

\* The height effect recreating the renderer: a new handle of the new size
\* replaces the one in graphRef.
HeightEffect_Recreate(c, w, h) == InitEffect(c, w, h)

\* The height effect.
HeightEffect(c, w, h) ==
    IF c.graphRef = <<>> THEN c
    ELSE [c EXCEPT !.handles[c.graphRef[1]].width = Max(w, MinWidth),
                   !.handles[c.graphRef[1]].height = h]

\* The ResizeObserver effect and its cleanup.
ObserveEffect(c) == [c EXCEPT !.observing = TRUE]
ObserveCleanup(c) == [c EXCEPT !.observing = FALSE]

\* The data effect without the setTimeout.
ScheduleZoomToFit_None(ts, inst, h) == ts

\* setTimeout(() => ..., 600) of component instance inst; handle records the
\* handle the data was pushed to, for the properties only.
ScheduleZoomToFit(ts, inst, h) == Append(ts, [inst |-> inst, handle |-> h])

\* The data effect for the data prop fd (<<>> or <<Graph3DData>>).
DataEffect(c, fd, inst) ==
    IF c.graphRef = <<>> \/ fd = <<>> THEN c
    ELSE LET h == c.graphRef[1]
         IN  [c EXCEPT !.handles[h].graphData = << RendererData(fd[1]) >>,
                       !.handles[h].pushes = @ + 1,
                       !.timers = ScheduleZoomToFit(@, inst, h)]

\* The effects of a mount, in the order of their declaration.
MountEffects(c, w, h, fd, inst) ==
    DataEffect(ObserveEffect(HeightEffect(InitEffect(c, w, h), w, h)), fd, inst)

\* The cleanups of an unmount.
UnmountCleanups(c) == ObserveCleanup(InitCleanup(c))

\* The canvas state c becomes the state of the refs and the renderer.
Commit(c) ==
    /\ graphRef' = c.graphRef
    /\ handles' = c.handles
    /\ timers' = c.timers
    /\ observing' = c.observing

\* The data effects that follow a change of the raw dataset or of the domain
\* selection: the memo returns another object unless it returned the raw
\* dataset before and returns the same raw dataset now.
PushIfRecomputed(rawNew) ==
    LET wasRaw == data # <<>> /\ ShortCircuit(selectedDomains, domains)
        isRaw  == data' # <<>> /\ ShortCircuit(selectedDomains', domains')
    IN  IF rawNew \/ ~(wasRaw /\ isRaw)
        THEN Commit(DataEffect(CanvasState, filteredData', instance))
        ELSE UNCHANGED << graphRef, handles, timers, observing >>

\* The handle in graphRef takes another data push.
CanPush(n) ==
    graphRef # <<>> => handles[graphRef[1]].pushes + n <= MaxPushes

\* No handle of the canvas state c has taken more data pushes than the bound.
WithinPushes(c) ==
    \A h \in 1..Len(c.handles) : c.handles[h].pushes <= MaxPushes

\* The first commit of the view: the effects of Graph3DCanvas run before the
\* initial load effect of the shell; a development build runs effects,
\* cleanups and effects again.
MountCanvas ==
    /\ ~canvasMounted
    /\ instance < MaxMounts
    /\ canvasMounted' = TRUE
    /\ instance' = instance + 1
    /\ LET h  == Height(isFullscreen)
           c1 == MountEffects(CanvasState, containerWidth, h, filteredData,
                              instance + 1)
       IN  Commit(IF devBuild
                  THEN MountEffects(UnmountCleanups(c1), containerWidth, h,
                                    filteredData, instance + 1)
                  ELSE c1)
    /\ callbackRefs' = callbackProps
    /\ UNCHANGED << containerWidth, cursor, callbackProps, dispatched >>

mountView == InitialLoad /\ MountCanvas /\ UNCHANGED requestHistory

\* The view unmounts: the cleanups of the canvas run, the state of the
\* component instance is gone and a later mount starts from the initial
\* state.  Responses to the requests of the unmounted instance set no state
\* and are followed no further; its timers stay pending.
unmountView ==
    /\ mounted
    /\ canvasMounted
    /\ Commit(UnmountCleanups(CanvasState))
    /\ canvasMounted' = FALSE
    /\ cursor' = ""
    /\ callbackProps' = ShellCallbacks
    /\ callbackRefs' = NoCallbacks
    /\ dispatched' = <<>>
    /\ mounted' = FALSE
    /\ loading' = TRUE
    /\ data' = <<>>
    /\ domains' = <<>>
    /\ timeSlices' = <<>>
    /\ filters' = <<>>
    /\ pendingGraph' = <<>>
    /\ pendingDomains' = 0
    /\ pendingTimeSlices' = 0
    /\ selectedNode' = <<>>
    /\ detailVisible' = FALSE
    /\ selectedDomains' = <<>>
    /\ timeRange' = <<>>
    /\ isFullscreen' = FALSE
    /\ domainsInitialized' = FALSE
    /\ lastSelectOp' = "none"
    /\ prevSelected' = <<>>
    /\ domainInits' = 0
    /\ timeRangeInits' = 0
    /\ UNCHANGED << envVars, message, instance, containerWidth,
                    requestHistory >>

\* A graph-data response with the data effect that follows it.
graphDataArrives(i) ==
    /\ CanPush(1)
    /\ loadGraphDataOk(i)
    /\ PushIfRecomputed(TRUE)
    /\ UNCHANGED << canvasMounted, instance, containerWidth, cursor,
                    requestHistory, callbackVars >>

\* A domain-list response.  The commit of the new list runs the data effect
\* when the length of the list changed; the effect on [domains] then sets
\* the selection, and the commit of the selection runs the data effect again.
domainsArrive(list) ==
    /\ loadDomainsOk(list)
    /\ LET wasRaw == data # <<>> /\ ShortCircuit(selectedDomains, domains)
           midRaw == data # <<>> /\ ShortCircuit(selectedDomains, list)
           isRaw  == data # <<>> /\ ShortCircuit(selectedDomains', list)
           mid    == IF data = <<>> THEN <<>>
                     ELSE << Filter(data[1], selectedDomains, list) >>
           c1     == IF Len(list) # Len(domains) /\ ~(wasRaw /\ midRaw)
                     THEN DataEffect(CanvasState, mid, instance)
                     ELSE CanvasState
           c2     == IF selectedDomains' # selectedDomains
                        /\ ~(midRaw /\ isRaw)
                     THEN DataEffect(c1, filteredData', instance)
                     ELSE c1
       IN  WithinPushes(c2) /\ Commit(c2)
    /\ UNCHANGED << canvasMounted, instance, containerWidth, cursor,
                    requestHistory, callbackVars >>

\* A click in the domain panel with the data effect that follows it.
selectAllClicked ==
    /\ CanPush(1)
    /\ handleSelectAll
    /\ PushIfRecomputed(FALSE)
    /\ UNCHANGED << canvasMounted, instance, containerWidth, cursor,
                    requestHistory, callbackVars >>

domainToggled(domainId) ==
    /\ CanPush(1)
    /\ handleToggle(domainId)
    /\ PushIfRecomputed(FALSE)
    /\ UNCHANGED << canvasMounted, instance, containerWidth, cursor,
                    requestHistory, callbackVars >>

\* The fullscreen button when the data effect depends on the height as well:
\* the height effect and then the data effect run.
fullscreenToggled_Repush ==
    /\ toggleFullscreen
    /\ Commit(DataEffect(HeightEffect(CanvasState, containerWidth,
                                       Height(isFullscreen')),
                         filteredData, instance))
    /\ UNCHANGED << canvasMounted, instance, containerWidth, cursor,
                    requestHistory, callbackVars >>

\* The fullscreen button with the height effect that follows it.
fullscreenToggled ==
    /\ toggleFullscreen
    /\ Commit(HeightEffect(CanvasState, containerWidth, Height(isFullscreen')))
    /\ UNCHANGED << canvasMounted, instance, containerWidth, cursor,
                    requestHistory, callbackVars >>

\* A resize that rebuilds the renderer: the handle in graphRef is destroyed
\* and a new one of the new width takes its place.
resize_Recreate(w) ==
    /\ canvasMounted
    /\ w # containerWidth
    /\ containerWidth' = w
    /\ Commit(InitEffect(InitCleanup(CanvasState), w, Height(isFullscreen)))
    /\ UNCHANGED << shellVars, canvasMounted, instance, cursor,
                    requestHistory, callbackVars >>

\* The layout gives the container the width w; the ResizeObserver reports it.
resize(w) ==
    /\ canvasMounted
    /\ w # containerWidth
    /\ containerWidth' = w
    /\ handles' = IF observing /\ w > 0 /\ graphRef # <<>>
                  THEN [handles EXCEPT ![graphRef[1]].width = w]
                  ELSE handles
    /\ UNCHANGED << shellVars, canvasMounted, instance, graphRef, timers,
                    observing, cursor, requestHistory, callbackVars >>

\* A notification of the ResizeObserver delivered after the unmount: its
\* callback reads the graphRef of the unmounted instance.
staleResize(w) ==
    /\ ~canvasMounted
    /\ handles' = IF w > 0 /\ graphRef # <<>>
                  THEN [handles EXCEPT ![graphRef[1]].width = w]
                  ELSE handles
    /\ UNCHANGED << shellVars, canvasMounted, instance, graphRef, timers,
                    observing, containerWidth, cursor, requestHistory,
                    callbackVars >>

\* The oldest zoom-to-fit timeout fires.  Its closure reads the graphRef of
\* the instance that scheduled it, which is null once that instance has
\* unmounted.
zoomTimerFires ==
    /\ timers # <<>>
    /\ timers' = Tail(timers)
    /\ handles' = IF Head(timers).inst = instance /\ graphRef # <<>>
                  THEN [handles EXCEPT ![graphRef[1]].zooms = @ + 1]
                  ELSE handles
    /\ UNCHANGED << shellVars, canvasMounted, instance, graphRef, observing,
                    containerWidth, cursor, requestHistory, callbackVars >>

\* The nodes the live renderer shows.
ShownNodes ==
    IF graphRef = <<>> \/ handles[graphRef[1]].graphData = <<>> THEN {}
    ELSE LET gd == handles[graphRef[1]].graphData[1]
         IN  { gd.nodes[i] : i \in 1..Len(gd.nodes) }

\* The renderer reports the hovered node (<<>>: none): the handler calls the
\* callback in onNodeHoverRef, if there is one, and sets the cursor of the
\* container.  The shell passes no onNodeHover.
nodeHover(target) ==
    /\ graphRef # <<>>
    /\ target # <<>> => target[1] \in ShownNodes
    /\ cursor' = IF target # <<>> THEN "pointer" ELSE "default"
    /\ cursor' # cursor
    /\ dispatched' = IF callbackRefs.hover # <<>>
                     THEN << [event |-> "hover", to |-> callbackRefs.hover[1]] >>
                     ELSE dispatched
    /\ UNCHANGED << shellVars, canvasMounted, instance, graphRef, handles,
                    timers, observing, containerWidth, requestHistory,
                    callbackProps, callbackRefs >>

\* The callbacks a parent may render the canvas with.
CallbackProps ==
    { [click |-> c, hover |-> h] :
        c \in { <<>>, << "handleNodeClick" >>, << "onPick" >> },
        h \in { <<>>, << "onHover" >> } }

\* A render that leaves the refs as the first render set them: the handlers
\* of the renderer keep calling the callbacks of the time the handle was
\* created.
parentRenders_KeepRefs(props) ==
    /\ canvasMounted
    /\ props # callbackProps
    /\ callbackProps' = props
    /\ UNCHANGED << shellVars, canvasMounted, instance, graphRef, handles,
                    timers, observing, containerWidth, cursor,
                    requestHistory, callbackRefs, dispatched >>

\* The parent renders the mounted canvas with other callbacks: the body of
\* the component stores them in the two refs; no effect has them as a
\* dependency.
parentRenders(props) ==
    /\ canvasMounted
    /\ props # callbackProps
    /\ callbackProps' = props
    /\ callbackRefs' = props
    /\ UNCHANGED << shellVars, canvasMounted, instance, graphRef, handles,
                    timers, observing, containerWidth, cursor,
                    requestHistory, dispatched >>

\* The renderer reports a click on the node it shows for node: the handler
\* calls the callback in onNodeClickRef, if there is one; the callback of
\* the shell is handleNodeClick.
nodeClick(node) ==
    /\ graphRef # <<>>
    /\ CopyNode(node) \in ShownNodes
    /\ dispatched' = IF callbackRefs.click # <<>>
                     THEN << [event |-> "click", to |-> callbackRefs.click[1]] >>
                     ELSE dispatched
    /\ IF callbackRefs.click = << "handleNodeClick" >>
       THEN handleNodeClick(node)
       ELSE UNCHANGED shellVars
    /\ UNCHANGED << canvasMounted, instance, graphRef, handles, timers,
                    observing, containerWidth, cursor, requestHistory,
                    callbackProps, callbackRefs >>

\* A node record after the simulation has written its layout fields.
Simulated(n) ==
    [id |-> n.id, nodeType |-> n.nodeType, properties |-> n.properties,
     vx |-> 0]

\* The renderer's simulation writes into the records it was handed; records
\* that are objects of the dataset change in the dataset as well.
engineTick ==
    /\ graphRef # <<>>
    /\ handles[graphRef[1]].graphData # <<>>
    /\ ~handles[graphRef[1]].graphData[1].ticked
    /\ handles' = [handles EXCEPT ![graphRef[1]].graphData[1].ticked = TRUE]
    /\ data' = IF handles[graphRef[1]].graphData[1].shared /\ data # <<>>
               THEN << [data[1] EXCEPT !.nodes =
                          [i \in 1..Len(data[1].nodes) |->
                              IF data[1].nodes[i] \in ShownNodes
                              THEN Simulated(data[1].nodes[i])
                              ELSE data[1].nodes[i]]] >>
               ELSE data
    /\ UNCHANGED << envVars, mounted, loading, domains, timeSlices, filters,
                    pendingGraph, pendingDomains, pendingTimeSlices, message,
                    selVars, domVars, timeVars, isFullscreen,
                    canvasMounted, instance, graphRef, timers, observing,
                    containerWidth, cursor, requestHistory, callbackVars >>


\* --------------------------------------------------------- specifications
DomainIdSet == { DomainIdPool[k] : k \in 1..Len(DomainIdPool) }
PoolNodes == { NodePool[k] : k \in 1..Len(NodePool) }

\* The backend holds one of the datasets of the shell scenarios.
Init ==
    /\ serverGraph \in ShellDatasets
    /\ InitShell
    /\ InitRenderer({800})
    /\ InitRequestHistory

\* The whole view: every operation of the hook, the shell and the panels.
Next ==
    \/ mountView
    \/ unmountView
    \/ \E i \in 1..MaxInFlight : graphDataArrives(i)
    \/ \E i \in 1..MaxInFlight : loadGraphDataFail(i) /\ UNCHANGED besideShell
    \/ \E list \in DomainLists : domainsArrive(list)
    \/ loadDomainsFail /\ UNCHANGED besideShell
    \/ \E list \in TimeSliceLists : loadTimeSlicesOk(list) /\ UNCHANGED besideShell
    \/ loadTimeSlicesFail /\ UNCHANGED besideShell
    \/ refresh /\ UNCHANGED besideShell
    \/ selectAllClicked
    \/ \E id \in DomainIdSet : domainToggled(id)
    \/ \E node \in PoolNodes : handleNodeClick(node) /\ UNCHANGED besideShell
    \/ onClose /\ UNCHANGED besideShell
    \/ \E a, b \in Years :
          handleTimeRangeChange(<< a, b >>) /\ UNCHANGED besideShell
    \/ fullscreenToggled
    \/ \E w \in Widths : resize(w)
    \/ \E w \in Widths : staleResize(w)
    \/ zoomTimerFires
    \/ \E target \in {<<>>} \cup { << n >> : n \in ShownNodes } : nodeHover(target)
    \/ \E props \in CallbackProps : parentRenders(props)
    \/ \E node \in PoolNodes : nodeClick(node)
    \/ engineTick
    \/ serverUpdate /\ UNCHANGED besideShell

Spec == Init /\ [][Next]_vars

\* The operations that read or write the node selection, the domain selection
\* and the data they are computed from.  The operations left out (time
\* slices, time range, fullscreen) leave all of these unchanged.
NextSelection ==
    \/ InitialLoad /\ UNCHANGED besideShell
    \/ \E i \in 1..MaxInFlight : loadGraphDataOk(i) /\ UNCHANGED besideShell
    \/ \E i \in 1..MaxInFlight : loadGraphDataFail(i) /\ UNCHANGED besideShell
    \/ \E list \in DomainLists : loadDomainsOk(list) /\ UNCHANGED besideShell
    \/ loadDomainsFail /\ UNCHANGED besideShell
    \/ refresh /\ UNCHANGED besideShell
    \/ handleSelectAll /\ UNCHANGED besideShell
    \/ \E id \in DomainIdSet : handleToggle(id) /\ UNCHANGED besideShell
    \/ \E node \in PoolNodes : handleNodeClick(node) /\ UNCHANGED besideShell
    \/ onClose /\ UNCHANGED besideShell
    \/ serverUpdate /\ UNCHANGED besideShell

SpecSelection == Init /\ [][NextSelection]_vars

\* The operations that read or write the time-slice list, the time range and
\* the filter parameters, with the graph-data requests they issue.
NextTime ==
    \/ InitialLoad /\ UNCHANGED besideShell
    \/ \E i \in 1..MaxInFlight : loadGraphDataOk(i) /\ UNCHANGED besideShell
    \/ \E i \in 1..MaxInFlight : loadGraphDataFail(i) /\ UNCHANGED besideShell
    \/ \E list \in TimeSliceLists : loadTimeSlicesOk(list) /\ UNCHANGED besideShell
    \/ loadTimeSlicesFail /\ UNCHANGED besideShell
    \/ refresh /\ UNCHANGED besideShell
    \/ \E a, b \in Years :
          handleTimeRangeChange(<< a, b >>) /\ UNCHANGED besideShell

SpecTime == Init /\ [][NextTime]_vars

\* ---------------------------------------------------------- request spec
\* The history of a step that issues n graph-data requests.
RecordIssue(who, n) ==
    /\ lastIssuer' = who
    /\ overtaken' = overtaken \o [k \in 1..n |-> FALSE]
    /\ UNCHANGED lastResolved

\* The history of the step in which request i resolves.
RecordResolution(i, ok) ==
    /\ lastResolved' = << [ok |-> ok, stale |-> overtaken[i],
                           params |-> pendingGraph[i]] >>
    /\ overtaken' =
          RemoveAt([k \in 1..Len(overtaken) |->
                       overtaken[k] \/ (ok /\ k < i)], i)
    /\ UNCHANGED lastIssuer

\* The graph-data requests of the hook and their responses, with the time
\* axis that sets the filter parameters.  The two reference lists stay empty
\* (their requests fail); what their responses do is left to the other
\* specifications.
NextRequests ==
    \/ InitialLoad /\ RecordIssue("mount", Invocations) /\ UNCHANGED canvasVars
    \/ \E i \in 1..MaxInFlight :
          loadGraphDataOk(i) /\ RecordResolution(i, TRUE)
          /\ UNCHANGED canvasVars
    \/ \E i \in 1..MaxInFlight :
          loadGraphDataFail(i) /\ RecordResolution(i, FALSE)
          /\ UNCHANGED canvasVars
    \/ loadDomainsFail /\ UNCHANGED besideShell
    \/ loadTimeSlicesFail /\ UNCHANGED besideShell
    \/ refresh /\ RecordIssue("refresh", 1) /\ UNCHANGED canvasVars
    \/ \E a, b \in Years :
          handleTimeRangeChange(<< a, b >>)
          /\ RecordIssue("range", Invocations) /\ UNCHANGED canvasVars
    \/ serverUpdate /\ UNCHANGED besideShell

SpecRequests == Init /\ [][NextRequests]_vars

\* ----------------------------------------------------------- canvas spec
\* The lifecycle of the canvas: mounts and unmounts, the responses and the
\* clicks in the domain panel that push data, fullscreen, resizes and the
\* zoom-to-fit timers.
NextCanvas ==
    \/ mountView
    \/ unmountView
    \/ \E i \in 1..MaxInFlight : graphDataArrives(i)
    \/ \E list \in DomainLists : domainsArrive(list)
    \/ selectAllClicked
    \/ \E id \in DomainIdSet : domainToggled(id)
    \/ fullscreenToggled
    \/ \E w \in Widths : resize(w)
    \/ \E w \in Widths : staleResize(w)
    \/ zoomTimerFires

InitCanvas ==
    /\ serverGraph \in ShellDatasets
    /\ InitShell
    /\ InitRenderer(Widths)
    /\ InitRequestHistory

SpecCanvas == InitCanvas /\ [][NextCanvas]_vars

\* The data pushes and their zoom-to-fit timers over mounts and unmounts, in
\* a container of fixed size.  A timeout of the browser that is due fires.
NextRefit ==
    \/ mountView
    \/ unmountView
    \/ \E i \in 1..MaxInFlight : graphDataArrives(i)
    \/ \E list \in DomainLists : domainsArrive(list)
    \/ selectAllClicked
    \/ \E id \in DomainIdSet : domainToggled(id)
    \/ zoomTimerFires

SpecRefit == Init /\ [][NextRefit]_vars /\ WF_vars(zoomTimerFires)

\* The mounted view of a production build with everything the user and the
\* renderer do to it: responses, the domain panel, node clicks and panel
\* closes, hovers, fullscreen, resizes, the renderer's simulation and the
\* zoom-to-fit timers.
NextRender ==
    \/ mountView
    \/ \E i \in 1..MaxInFlight : graphDataArrives(i)
    \/ \E list \in DomainLists : domainsArrive(list)
    \/ selectAllClicked
    \/ \E id \in DomainIdSet : domainToggled(id)
    \/ \E node \in PoolNodes : handleNodeClick(node) /\ UNCHANGED besideShell
    \/ onClose /\ UNCHANGED besideShell
    \/ fullscreenToggled
    \/ \E w \in Widths : resize(w)
    \/ zoomTimerFires
    \/ \E target \in {<<>>} \cup { << n >> : n \in ShownNodes } : nodeHover(target)
    \/ engineTick

InitRender ==
    /\ serverGraph \in ShellDatasets
    /\ InitShell
    /\ InitRenderer({800})
    /\ InitRequestHistory
    /\ ~devBuild

SpecRender == InitRender /\ [][NextRender]_vars

\* --------------------------------------------------------- callback spec
\* The canvas of a production build under a parent that renders it with
\* callbacks of its choice: the mount, the graph-data responses that give
\* the renderer nodes, renders with other callbacks, and the clicks and
\* hovers the renderer reports.
NextCallbacks ==
    \/ mountView
    \/ \E i \in 1..MaxInFlight : graphDataArrives(i)
    \/ \E props \in CallbackProps : parentRenders(props)
    \/ \E node \in PoolNodes : nodeClick(node)
    \/ \E target \in {<<>>} \cup { << n >> : n \in ShownNodes } : nodeHover(target)
    \/ onClose /\ UNCHANGED besideShell

SpecCallbacks == InitRender /\ [][NextCallbacks]_vars

\* ---------------------------------------------------------- trigger spec
\* The node the user clicks and hovers in the trigger specification: the
\* TimeSlice node of ScenarioData, which every filtered dataset retains.
ProbeNode == NodePool[3]

\* What can and what cannot make the canvas take new data, in a development
\* build showing ScenarioData: responses to graph-data requests,
\* domain-list responses, the domain panel, refresh and a time-range change
\* on one side; a click on a node, the close of the panel, a hover, the
\* fullscreen button and a resize on the other.
NextTriggers ==
    \/ mountView
    \/ \E i \in 1..MaxInFlight : graphDataArrives(i)
    \/ \E list \in DomainLists : domainsArrive(list)
    \/ selectAllClicked
    \/ \E id \in DomainIdSet : domainToggled(id)
    \/ refresh /\ UNCHANGED besideShell
    \/ handleTimeRangeChange(<< 2020, 2020 >>) /\ UNCHANGED besideShell
    \/ handleNodeClick(ProbeNode) /\ UNCHANGED besideShell
    \/ onClose /\ UNCHANGED besideShell
    \/ fullscreenToggled
    \/ \E w \in {300, 800} : resize(w)
    \/ \E target \in {<<>>, << CopyNode(ProbeNode) >>} : nodeHover(target)

InitTriggers ==
    /\ serverGraph = ScenarioData
    /\ InitShell
    /\ InitRenderer({800})
    /\ InitRequestHistory
    /\ devBuild

SpecTriggers == InitTriggers /\ [][NextTriggers]_vars

\* ------------------------------------------------------ detail-panel spec
\* The shell's operations around the detail panel: clicks on displayed
\* nodes and the close of the panel, and beside them the domain panel, the
\* time-range slider, refresh, the responses to the graph-data and
\* domain-list requests, and changes of the server's data between requests.
NextPanel ==
    \/ InitialLoad /\ UNCHANGED besideShell
    \/ \E i \in 1..MaxInFlight : loadGraphDataOk(i) /\ UNCHANGED besideShell
    \/ \E i \in 1..MaxInFlight : loadGraphDataFail(i) /\ UNCHANGED besideShell
    \/ \E list \in DomainLists : loadDomainsOk(list) /\ UNCHANGED besideShell
    \/ refresh /\ UNCHANGED besideShell
    \/ handleSelectAll /\ UNCHANGED besideShell
    \/ \E id \in DomainIdSet : handleToggle(id) /\ UNCHANGED besideShell
    \/ handleTimeRangeChange(<< 2020, 2020 >>) /\ UNCHANGED besideShell
    \/ \E node \in PoolNodes : handleNodeClick(node) /\ UNCHANGED besideShell
    \/ onClose /\ UNCHANGED besideShell
    \/ serverUpdate /\ UNCHANGED besideShell

SpecPanel == Init /\ [][NextPanel]_vars

\* ----------------------------------------------------- initial-load spec
\* The three fetches of the initial load effect and their responses, in
\* every order and with every outcome.
NextInitialLoad ==
    \/ InitialLoad /\ UNCHANGED besideShell
    \/ \E i \in 1..MaxInFlight : loadGraphDataOk(i) /\ UNCHANGED besideShell
    \/ \E i \in 1..MaxInFlight : loadGraphDataFail(i) /\ UNCHANGED besideShell
    \/ \E list \in DomainLists : loadDomainsOk(list) /\ UNCHANGED besideShell
    \/ loadDomainsFail /\ UNCHANGED besideShell
    \/ \E list \in TimeSliceLists : loadTimeSlicesOk(list) /\ UNCHANGED besideShell
    \/ loadTimeSlicesFail /\ UNCHANGED besideShell

SpecInitialLoad == Init /\ [][NextInitialLoad]_vars

\* ----------------------------------------------------------- filter spec
NextFilter ==
    \/ InitialLoad /\ UNCHANGED besideShell
    \/ \E i \in 1..MaxInFlight : loadGraphDataOk(i) /\ UNCHANGED besideShell
    \/ \E i \in 1..MaxInFlight : loadGraphDataFail(i) /\ UNCHANGED besideShell
    \/ \E list \in DomainLists : loadDomainsOk(list) /\ UNCHANGED besideShell
    \/ loadDomainsFail /\ UNCHANGED besideShell
    \/ handleSelectAll /\ UNCHANGED besideShell
    \/ \E id \in {DomainIdPool[k] : k \in 1..Len(DomainIdPool)} :
          handleToggle(id) /\ UNCHANGED besideShell

\* The backend holds any dataset within the bounds; it does not change during
\* the session.
InitFilter ==
    /\ serverGraph \in Datasets
    /\ InitShell
    /\ InitRenderer({800})
    /\ InitRequestHistory

SpecFilter == InitFilter /\ [][NextFilter]_vars

\* ================================================================ claims
\* The raw dataset and the filtered dataset of a state with data loaded.
Raw == data[1]
Out == filteredData[1]
RawNodes == { Raw.nodes[i] : i \in 1..Len(Raw.nodes) }
OutNodes == { Out.nodes[i] : i \in 1..Len(Out.nodes) }
RawEdges == { Raw.edges[i] : i \in 1..Len(Raw.edges) }
OutEdges == { Out.edges[i] : i \in 1..Len(Out.edges) }
Selected == { selectedDomains[i] : i \in 1..Len(selectedDomains) }
Known == { domains[i] : i \in 1..Len(domains) }

\* The retention rule of the Filter Engine for node n, with a domain property
\* of any value counting as an attribution.
RuleRetains(n) ==
    \/ n.nodeType = "TimeSlice"
    \/ n.nodeType = "Domain" /\ n.id \in Selected
    \/ /\ n.nodeType \notin {"TimeSlice", "Domain"}
       /\ Len(n.properties.domain) = 1
       /\ ("domain_" \o n.properties.domain[1]) \in Selected

\* The same rule with only a non-empty domain property counting.
RuleRetainsNonEmpty(n) ==
    \/ n.nodeType = "TimeSlice"
    \/ n.nodeType = "Domain" /\ n.id \in Selected
    \/ /\ n.nodeType \notin {"TimeSlice", "Domain"}
       /\ Len(n.properties.domain) = 1
       /\ n.properties.domain[1] # ""
       /\ ("domain_" \o n.properties.domain[1]) \in Selected

\* C1 (as claimed): in every filtered dataset, for any raw dataset and any
\* domain selection, the source and the target of every edge are ids of nodes
\* of the filtered node set.
C1_EdgeConsistency ==
    data # <<>> =>
        \A e \in OutEdges :
            e.source \in NodeIds(Out.nodes) /\ e.target \in NodeIds(Out.nodes)

C3_MetadataAccuracy ==
    data # <<>> =>
        /\ Out.metadata.totalNodes = Len(Out.nodes)
        /\ Out.metadata.totalEdges = Len(Out.edges)

\* C4: every TimeSlice node of the raw dataset is in the filtered output, for
\* every domain selection and every domain reference list.
C4_TimeSliceInvariance ==
    data # <<>> =>
        \A n \in RawNodes : n.nodeType = "TimeSlice" => n \in OutNodes

\* C4 witness: a raw dataset with a TimeSlice node, filtered (not returned
\* whole) under a non-empty reference list, with some other node dropped.
C4_Witness ==
    /\ data # <<>>
    /\ domains # <<>>
    /\ ~ShortCircuit(selectedDomains, domains)
    /\ \E n \in OutNodes : n.nodeType = "TimeSlice"
    /\ \E n \in RawNodes : n \notin OutNodes

\* C5 (as claimed): when the selected domain ids are the complete known domain
\* set the filtered output has the nodes and edges of the raw dataset, and for
\* every other selection the output is the one the retention rules define.
C5_IdentityOnFullSelection ==
    data # <<>> =>
        IF Selected = Known
        THEN Out.nodes = Raw.nodes /\ Out.edges = Raw.edges
        ELSE /\ Out.nodes = FilterNodes(Raw.nodes, selectedDomains)
             /\ Out.edges = FilterEdges(Raw.edges, NodeIds(Out.nodes))

\* C10: in the scenario dataset, selecting exactly D1 yields the nodes D1, S1,
\* T2020 and the edge S1 -> D1; for every selection a node attributed (by a
\* non-empty domain property) to a selected domain is retained together with
\* that Domain node, and every edge of the raw dataset whose source and target
\* are both retained is retained.
C10_ScenarioB ==
    data # <<>> =>
        /\ (Raw = ScenarioData /\ selectedDomains = << "domain_a" >>) =>
              /\ NodeIds(Out.nodes) = {"domain_a", "S1", "T2020"}
              /\ Out.edges = << Edge("S1", "domain_a", "BELONGS_TO") >>
        /\ \A n \in RawNodes :
              (/\ n.nodeType \notin {"TimeSlice", "Domain"}
               /\ Truthy(n.properties.domain)
               /\ ("domain_" \o n.properties.domain[1]) \in Selected)
              => /\ n \in OutNodes
                 /\ \A m \in RawNodes :
                       (m.nodeType = "Domain"
                        /\ m.id = "domain_" \o n.properties.domain[1])
                       => m \in OutNodes
        /\ \A e \in RawEdges :
              (e.source \in NodeIds(Out.nodes) /\ e.target \in NodeIds(Out.nodes))
              => e \in OutEdges

\* C10 witness: the scenario dataset with exactly D1 selected out of a
\* reference list of two domains, so that the filter runs.
C10_Witness ==
    /\ data = << ScenarioData >>
    /\ selectedDomains = << "domain_a" >>
    /\ Len(domains) = 2
    /\ Len(filteredData[1].edges) = 1

\* C6: a click on a node leads in one step to Selected(node) with the detail
\* panel open, from Idle, from Selected(x) and from Selected(node) alike: the
\* click is possible on every rendered node whatever the selection, the state
\* after a click is never Idle, and at most one node is selected.
C6_ClickTransition ==
    /\ [](Len(selectedNode) <= 1)
    /\ [](lastSelectOp = "click" => selectedNode # <<>> /\ detailVisible)
    /\ [](data # <<>> => \A node \in OutNodes : ENABLED handleNodeClick(node))
    /\ [][\A node \in PoolNodes :
            handleNodeClick(node) =>
                selectedNode' = << node >> /\ detailVisible' = TRUE]_vars

\* C6 witness: node B was clicked while another node A was selected.
C6_Witness ==
    /\ lastSelectOp = "click"
    /\ prevSelected # <<>>
    /\ selectedNode # <<>>
    /\ prevSelected # selectedNode
    /\ detailVisible

\* C7: a close of the detail panel leads to Idle (no selected node, panel not
\* visible), and the selection leaves Idle only by a node click.
C7_CloseTransition ==
    /\ [](lastSelectOp = "close" => selectedNode = <<>> /\ ~detailVisible)
    /\ [][onClose => selectedNode' = <<>> /\ detailVisible' = FALSE]_vars
    /\ [][(selectedNode = <<>> /\ selectedNode' # <<>>) =>
            \E node \in PoolNodes : handleNodeClick(node)]_vars

\* C7 witness: the panel of a selected node was closed.
C7_Witness ==
    /\ lastSelectOp = "close"
    /\ prevSelected # <<>>
    /\ selectedNode = <<>>
    /\ ~detailVisible

\* C8: the effect on [domains] sets the selection once, to all ids of the
\* reference list, the first time that list is non-empty; afterwards the
\* selection changes only by a toggle or a select-all/deselect-all of the
\* user, whatever reloads, refreshes or later reference lists follow.
C8_OneShotDomainInit ==
    /\ [](domainInits <= 1)
    /\ [](domains # <<>> => domainInits = 1)
    /\ [][domainInits' # domainInits =>
            /\ domains = <<>>
            /\ domains' # <<>>
            /\ selectedDomains' = domains']_vars
    /\ [][(domainInits = 1 /\ selectedDomains' # selectedDomains) =>
            (handleSelectAll \/ \E id \in DomainIdSet : handleToggle(id))]_vars

\* C8 witness: after the initialisation the user has emptied the selection,
\* both reference-list responses of a development build have arrived, and the
\* selection is empty under a non-empty reference list.
C8_Witness ==
    /\ devBuild
    /\ pendingDomains = 0
    /\ domainInits = 1
    /\ domains # <<>>
    /\ selectedDomains = <<>>

\* The least and the greatest year of a non-empty list.
MinYear(list) ==
    CHOOSE y \in { list[i] : i \in 1..Len(list) } :
        \A i \in 1..Len(list) : y <= list[i]
MaxYear(list) ==
    CHOOSE y \in { list[i] : i \in 1..Len(list) } :
        \A i \in 1..Len(list) : y >= list[i]

\* C9: the effect on [timeSlices, timeRange] sets the range at most once, to
\* [least year, greatest year] of the reference list, when that list is
\* non-empty and no range exists; once a range exists it changes only by the
\* user's slider, whatever reference list arrives later.
C9_TimeRangeInit ==
    /\ [](timeRangeInits <= 1)
    /\ [](timeSlices # <<>> => timeRange # <<>>)
    /\ [][timeRangeInits' # timeRangeInits =>
            /\ timeRange = <<>>
            /\ timeSlices' # <<>>
            /\ timeRange' = << MinYear(timeSlices'), MaxYear(timeSlices') >>]_vars
    /\ [][(timeRange # <<>> /\ timeRange' # timeRange) =>
            \E a, b \in Years : handleTimeRangeChange(<< a, b >>)]_vars

\* C9 witness (scenario D): the list 2018, 2024 has set the range to
\* [2018, 2024], and a later empty reference list has left it in place.
C9_Witness ==
    /\ timeRangeInits = 1
    /\ timeRange = << 2018, 2024 >>
    /\ timeSlices = <<>>
    /\ filters = <<>>

\* The TimeSlice nodes of a node sequence, in order.
TimeSliceNodes(nodes) == SelectSeq(nodes, LAMBDA n : n.nodeType = "TimeSlice")

C17_StatsFromFiltered ==
    IF data = <<>>
    THEN stats = [nodes |-> 0, edges |-> 0, standards |-> 0, skills |-> 0]
    ELSE /\ stats.nodes = Len(Out.nodes)
         /\ stats.edges = Len(Out.edges)
         /\ stats.standards = CountType(Out.nodes, "Standard")
         /\ stats.skills = CountType(Out.nodes, "Skill")

\* The ids of the renderer handles that are live.
LiveHandles == { h \in 1..Len(handles) : handles[h].live }

\* C12: in every state of the canvas lifecycle at most one renderer handle is
\* live, and it is the one graphRef holds; a step that creates a handle
\* leaves every older handle destroyed.
C12_SingleHandle ==
    /\ [](Cardinality(LiveHandles) <= 1)
    /\ [](\A h \in LiveHandles : graphRef = << h >>)
    /\ [][Len(handles') > Len(handles) =>
            \A h \in 1..(Len(handles') - 1) : ~handles'[h].live]_vars

\* C12 witness: the second mount of a development build, after data pushes
\* to the first instance: four handles were created and one is live.
C12_Witness ==
    /\ devBuild
    /\ instance = 2
    /\ canvasMounted
    /\ Len(handles) = 4
    /\ LiveHandles = {4}
    /\ timers # <<>>

\* C13: an unmount of the canvas destroys the handle in graphRef and clears
\* graphRef; while the canvas is unmounted no handle is live.
C13_DestroyOnUnmount ==
    /\ [](~canvasMounted => graphRef = <<>> /\ LiveHandles = {})
    /\ [][unmountView =>
            /\ graphRef # <<>>
            /\ ~handles'[graphRef[1]].live
            /\ graphRef' = <<>>
            /\ LiveHandles' = {}]_vars

\* C13 witness: the canvas was unmounted after a data push, with the
\* zoom-to-fit timer of the push still pending.
C13_Witness ==
    /\ ~canvasMounted
    /\ instance = 1
    /\ handles # <<>>
    /\ LiveHandles = {}
    /\ \E k \in 1..Len(timers) : timers[k].inst = 1

\* C14: a graph-data fetch that fails leaves the dataset as it was, raises
\* the error notification and clears the loading flag; the notification stays
\* up after the failure.
C14_FetchFailure ==
    /\ [][\A i \in 1..MaxInFlight :
            loadGraphDataFail(i) =>
                /\ data' = data
                /\ message' = GraphLoadError
                /\ loading' = FALSE]_vars
    /\ []((lastResolved # <<>> /\ ~lastResolved[1].ok) =>
            message = GraphLoadError)

\* C14 witness: a refresh failed while a dataset was displayed; the dataset is
\* still held, the notification is up and the loading flag is cleared.
C14_Witness ==
    /\ lastIssuer = "refresh"
    /\ pendingGraph = <<>>
    /\ lastResolved # <<>>
    /\ ~lastResolved[1].ok
    /\ data # <<>>
    /\ message = GraphLoadError
    /\ ~loading

\* C15: every graph-data request in flight can resolve, whatever else is in
\* flight; requests leave flight only by resolving; every response with a
\* dataset becomes the dataset held, and the dataset held changes in no other
\* way: it is the one of the response that resolved last, also when that
\* response answers an older request.
C15_LastResponseWins ==
    /\ [](\A i \in 1..Len(pendingGraph) :
            ENABLED loadGraphDataOk(i) /\ ENABLED loadGraphDataFail(i))
    /\ [][Len(pendingGraph') < Len(pendingGraph) =>
            \E i \in 1..MaxInFlight :
                loadGraphDataOk(i) \/ loadGraphDataFail(i)]_vars
    /\ [][\A i \in 1..MaxInFlight :
            loadGraphDataOk(i) => data' = << serverGraph >>]_vars
    /\ [][data' # data => \E i \in 1..MaxInFlight : loadGraphDataOk(i)]_vars

\* C15 witness: the response that resolved last answers a request older than
\* one that had already resolved, with parameters other than the filter
\* parameters now held; its dataset is the one held, and it is not the
\* dataset the backend holds now.
C15_Witness ==
    /\ pendingGraph = <<>>
    /\ lastResolved # <<>>
    /\ lastResolved[1].ok
    /\ lastResolved[1].stale
    /\ lastResolved[1].params # QueryParams(filters)
    /\ data # <<>>
    /\ data # << serverGraph >>

\* The parameters of a request for the filter parameters f.
ParamsOf(f) ==
    IF f = <<>> THEN {}
    ELSE { << "start_year", f[1] >>, << "end_year", f[2] >> }

\* C16: a refresh adds exactly one graph-data request, with the filter
\* parameters held, to the requests in flight and issues no request for the
\* domain list or the time-slice list; the filter parameters held are the
\* ones the latest time-range change set; requests for the two lists are
\* issued by the initial load only.
C16_Refresh ==
    /\ [][refresh =>
            /\ pendingGraph' = Append(pendingGraph, ParamsOf(filters))
            /\ pendingDomains' = pendingDomains
            /\ pendingTimeSlices' = pendingTimeSlices
            /\ filters' = filters]_vars
    /\ [][filters' # filters =>
            \E a, b \in Years :
                handleTimeRangeChange(<< a, b >>) /\ filters' = << a, b >>]_vars
    /\ [][(pendingDomains' > pendingDomains
           \/ pendingTimeSlices' > pendingTimeSlices) => InitialLoad]_vars

\* C16 witness: a refresh after a time-range change is the only request in
\* flight; it carries the range, and no list request is in flight.
C16_Witness ==
    /\ lastIssuer = "refresh"
    /\ filters # <<>>
    /\ pendingGraph = << ParamsOf(filters) >>
    /\ pendingDomains = 0
    /\ pendingTimeSlices = 0
    /\ loading

\* C18: the raw dataset changes only when a graph-data response arrives: no
\* toggle, select-all, node click, panel close, hover, resize, fullscreen
\* toggle, data push, simulation step or timer changes it; the records the
\* renderer holds are never objects of the dataset.
C18_RawImmutable ==
    /\ [](\A h \in 1..Len(handles) :
            handles[h].graphData # <<>> => ~handles[h].graphData[1].shared)
    /\ [][data' # data => \E i \in 1..MaxInFlight : loadGraphDataOk(i)]_vars

\* C18 witness: with every domain selected the filtered dataset is the raw
\* dataset itself; its records were pushed, the renderer's simulation has
\* written into what it holds, a node is selected in fullscreen, and the raw
\* dataset is still the one the backend sent.
C18_Witness ==
    /\ data = << serverGraph >>
    /\ ShortCircuit(selectedDomains, domains)
    /\ graphRef # <<>>
    /\ handles[graphRef[1]].graphData # <<>>
    /\ handles[graphRef[1]].graphData[1].ticked
    /\ handles[graphRef[1]].pushes = 2
    /\ selectedNode # <<>>
    /\ isFullscreen

\* C20: a step that pushes data to a handle appends one zoom-to-fit timer per
\* push, for that handle; a timer that fires while its handle is live zooms
\* that handle once, and otherwise does nothing; the zooms of a live handle
\* and the timers pending for it add up to its pushes, so no zoom precedes
\* its push; and the n-th push to the handle in graphRef is followed by the
\* n-th zoom of that handle or by its destruction.
C20_RefitAfterPush ==
    /\ [][\A h \in 1..Len(handles) :
            handles'[h].pushes > handles[h].pushes =>
                timers' = timers \o
                    [k \in 1..(handles'[h].pushes - handles[h].pushes) |->
                        [inst |-> instance, handle |-> h]]]_vars
    /\ [][zoomTimerFires =>
            LET h == Head(timers).handle
            IN  IF handles[h].live
                THEN handles' = [handles EXCEPT ![h].zooms = @ + 1]
                ELSE handles' = handles]_vars
    /\ [](\A h \in LiveHandles :
            handles[h].zooms
              + Cardinality({ k \in 1..Len(timers) : timers[k].handle = h })
              = handles[h].pushes)
    /\ \A n \in 1..MaxPushes :
          (graphRef # <<>> /\ handles[graphRef[1]].pushes >= n)
          ~> (graphRef = <<>> \/ handles[graphRef[1]].zooms >= n)

\* C20 witness: two pushes to the live handle, both followed by their zoom,
\* no timer pending.
C20_Witness ==
    /\ graphRef # <<>>
    /\ handles[graphRef[1]].pushes = 2
    /\ handles[graphRef[1]].zooms = 2
    /\ timers = <<>>

\* ------------------------------------------------------------------- C21
\* C21: the initial load effect issues the graph-data, the domain-list and
\* the time-slice-list request in one step, before any response; a response
\* to one of them changes the piece of hook state of that request only
\* (dataset with the loading flag and the notification, domain list, time-
\* slice list); and whatever has or has not happened to the other two
\* requests, a pending request can resolve with its result.
C21_IndependentFetches ==
    /\ [][~mounted /\ mounted' =>
            /\ Len(pendingGraph') = Invocations
            /\ pendingDomains' = Invocations
            /\ pendingTimeSlices' = Invocations
            /\ UNCHANGED << data, domains, timeSlices >>]_vars
    /\ [][Len(pendingGraph') < Len(pendingGraph) =>
            UNCHANGED << domains, timeSlices, pendingDomains,
                         pendingTimeSlices, domVars, timeVars >>]_vars
    /\ [][pendingDomains' < pendingDomains =>
            UNCHANGED << data, loading, message, timeSlices, pendingGraph,
                         pendingTimeSlices, timeVars >>]_vars
    /\ [][pendingTimeSlices' < pendingTimeSlices =>
            UNCHANGED << data, loading, message, domains, pendingGraph,
                         pendingDomains, domVars >>]_vars
    /\ [](pendingGraph # <<>> =>
            ENABLED (loadGraphDataOk(1) /\ data' = << serverGraph >>
                     /\ UNCHANGED besideShell))
    /\ [](pendingDomains > 0 =>
            \A list \in DomainLists :
                ENABLED (loadDomainsOk(list) /\ domains' = list
                         /\ UNCHANGED besideShell))
    /\ [](pendingTimeSlices > 0 =>
            \A list \in TimeSliceLists :
                ENABLED (loadTimeSlicesOk(list) /\ timeSlices' = list
                         /\ UNCHANGED besideShell))

\* The domain list has arrived while the graph-data request is still in
\* flight and the time-slice request has failed.
C21_Witness ==
    /\ mounted
    /\ domains # <<>>
    /\ pendingGraph # <<>> /\ data = <<>> /\ loading
    /\ pendingTimeSlices = 0 /\ timeSlices = <<>>

\* ------------------------------------------------------------------- C22
\* A step in which the renderer is handed data: a handle counts one more
\* push, or one more zoom-to-fit timeout is pending.
DataPushed ==
    \/ Len(timers') > Len(timers)
    \/ \E h \in 1..Len(handles) : handles'[h].pushes > handles[h].pushes

\* A step in which a graph-data response replaces the raw dataset.
RawReplaced == Len(pendingGraph') < Len(pendingGraph) /\ data' # <<>>

\* A step of a node click, a panel close, a hover, the fullscreen button, a
\* resize, or one that changes the loading flag and consumes no response.
UnrelatedStep ==
    \/ selectedNode' # selectedNode
    \/ detailVisible' # detailVisible
    \/ cursor' # cursor
    \/ isFullscreen' # isFullscreen
    \/ containerWidth' # containerWidth
    \/ loading' # loading /\ Len(pendingGraph') >= Len(pendingGraph)

\* What the renderer holds and the zoom-to-fit timeouts stay as they are.
NoPushNoRefit ==
    /\ timers' = timers
    /\ Len(handles') = Len(handles)
    /\ \A h \in 1..Len(handles) :
          /\ handles'[h].graphData = handles[h].graphData
          /\ handles'[h].pushes = handles[h].pushes
          /\ handles'[h].zooms = handles[h].zooms

\* C22 as stated: data is pushed to the renderer only in a step that replaces
\* the raw dataset (the reload of a time-range change included) or changes
\* the domain selection.
C22_RecomputeTriggers_Original ==
    [][DataPushed =>
          RawReplaced \/ selectedDomains' # selectedDomains]_vars

\* C22, amended: data is pushed to the renderer only in a step that replaces
\* the raw dataset, sets the domain selection (to another value, or by a
\* click on the all/none button that leaves its value as it is) or changes
\* the length of the domain reference list; a change of the time range pushes nothing by
\* itself and issues the reload; and a node click, a panel close, a hover,
\* the fullscreen button, a resize or a change of the loading flag alone
\* leaves the filtered dataset as it is, pushes no data and schedules or runs
\* no zoom-to-fit.
C22_RecomputeTriggers ==
    /\ [][DataPushed =>
            \/ RawReplaced
            \/ selectedDomains' # selectedDomains
            \/ handleSelectAll
            \/ Len(domains') # Len(domains)]_vars
    /\ [][timeRange' # timeRange =>
            /\ ~DataPushed
            /\ Len(pendingGraph') > Len(pendingGraph)
            /\ filteredData' = filteredData]_vars
    /\ [][UnrelatedStep /\ canvasMounted =>
            filteredData' = filteredData /\ NoPushNoRefit]_vars

\* The renderer has been handed data, one zoom-to-fit timeout is pending per
\* push, and since then a node was clicked, the view went fullscreen, a node
\* is hovered, the container was resized and a reload is under way.
C22_Witness ==
    /\ graphRef # <<>>
    /\ handles[graphRef[1]].pushes >= 1
    /\ Len(timers) = handles[graphRef[1]].pushes
    /\ selectedNode # <<>> /\ detailVisible
    /\ isFullscreen
    /\ cursor = "pointer"
    /\ containerWidth = 300
    /\ loading /\ data # <<>> /\ timeRange # <<>>

\* ------------------------------------------------------------------- C23
\* A step of the mounted canvas in which the container width or the requested
\* height changes.
ResizeStep ==
    /\ canvasMounted /\ canvasMounted'
    /\ containerWidth' # containerWidth \/ isFullscreen' # isFullscreen

\* The handle in graphRef before the step is the handle in graphRef after it,
\* no handle is created or destroyed, and what the handles hold is kept.
SameHandle ==
    /\ graphRef # <<>>
    /\ graphRef' = graphRef
    /\ Len(handles') = Len(handles)
    /\ \A h \in 1..Len(handles) :
          /\ handles'[h].live = handles[h].live
          /\ handles'[h].graphData = handles[h].graphData
          /\ handles'[h].pushes = handles[h].pushes
    /\ handles[graphRef[1]].live

\* C23 as stated: every change of the container width or of the requested
\* height sets the width or the height of the handle in graphRef to the new
\* value and keeps the handle.
C23_ResizeKeepsHandle_Original ==
    [][ResizeStep =>
          /\ SameHandle
          /\ containerWidth' # containerWidth =>
                handles'[graphRef[1]].width = containerWidth'
          /\ isFullscreen' # isFullscreen =>
                handles'[graphRef[1]].height = Height(isFullscreen')]_vars

\* C23, amended: a change of the container width to a positive value sets the
\* width of the handle in graphRef to it, a change to zero leaves the
\* renderer as it is, a change of the requested height sets the height of
\* the handle (and its width to the container width, at least MinWidth);
\* none of them destroys the handle or creates another one.
C23_ResizeKeepsHandle ==
    [][ResizeStep =>
          /\ SameHandle
          /\ containerWidth' # containerWidth /\ containerWidth' > 0 =>
                /\ handles'[graphRef[1]].width = containerWidth'
                /\ handles'[graphRef[1]].height = handles[graphRef[1]].height
          /\ containerWidth' # containerWidth /\ containerWidth' = 0 =>
                handles' = handles
          /\ isFullscreen' # isFullscreen =>
                /\ handles'[graphRef[1]].height = Height(isFullscreen')
                /\ handles'[graphRef[1]].width
                     = Max(containerWidth, MinWidth)]_vars

\* The first handle of a production build, resized to the width 300 and to
\* the fullscreen height, still holds the data it was handed.
C23_Witness ==
    /\ graphRef = << 1 >>
    /\ Len(handles) = 1
    /\ handles[1].live
    /\ handles[1].width = 300
    /\ handles[1].height = Height(TRUE)
    /\ handles[1].pushes >= 1

\* ------------------------------------------------------------------- C24
\* C24: a click or a hover the renderer reports calls the callback the
\* latest render of the parent supplied for that event, whatever callback
\* was supplied when the handle was created; the refs hold the props of the
\* latest render; and a render that supplies other callbacks leaves graphRef,
\* the handles and the timers as they are.
C24_CallbackIndirection ==
    /\ [][dispatched' # dispatched =>
            /\ dispatched' # <<>>
            /\ callbackProps[dispatched'[1].event]
                 = << dispatched'[1].to >>]_vars
    /\ [](canvasMounted => callbackRefs = callbackProps)
    /\ [][callbackProps' # callbackProps /\ canvasMounted' =>
            /\ canvasMounted
            /\ graphRef # <<>> /\ handles[graphRef[1]].live
            /\ UNCHANGED << graphRef, handles, timers, observing >>]_vars

\* The only handle ever created, made when the parent supplied
\* handleNodeClick and no hover callback, has reported a hover to onHover
\* while the click ref holds onPick and the shell has no node selected.
C24_Witness ==
    /\ Len(handles) = 1 /\ graphRef = << 1 >> /\ handles[1].live
    /\ dispatched = << [event |-> "hover", to |-> "onHover"] >>
    /\ callbackRefs.click = << "onPick" >>
    /\ selectedNode = <<>>

C26_LoadingTracksInFlight ==
    pendingGraph # <<>> => loading

Toggled(selected, domainId) ==
    IF Includes(selected, domainId)
    THEN SelectSeq(selected, LAMBDA id : id # domainId)
    ELSE Append(selected, domainId)

\* The ids of a sequence of domain ids.
IdSet(seq) == { seq[i] : i \in 1..Len(seq) }

\* At most one response to a domain-list request has arrived: the reference
\* list was not replaced after the initialisation.
ListGiven == mounted /\ pendingDomains >= Invocations - 1

\* C28: for a reference list that is given once, after the one-shot
\* initialisation and any toggles and all/none clicks the selection has no
\* id twice and only ids of the list, so it is as long as the list exactly
\* when it holds every id of the list; a toggle sets the selection to
\* Toggled, and toggling an id of the list twice gives the ids selected
\* before.
C28_SelectionWellFormed ==
    /\ [](ListGiven =>
            /\ \A i, j \in 1..Len(selectedDomains) :
                  i # j => selectedDomains[i] # selectedDomains[j]
            /\ Selected \subseteq Known
            /\ Len(selectedDomains) = Len(domains) <=> Selected = Known
            /\ \A id \in Known :
                  /\ IdSet(Toggled(Toggled(selectedDomains, id), id)) = Selected
                  /\ Len(Toggled(Toggled(selectedDomains, id), id))
                       = Len(selectedDomains))
    /\ [][\A id \in DomainIdSet :
            handleToggle(id) =>
                selectedDomains' = Toggled(selectedDomains, id)]_vars

\* In a production build the user has deselected domain_a and selected it
\* again: the same ids as after the initialisation, in another order.
C28_Witness ==
    /\ ~devBuild
    /\ domains = << "domain_a", "domain_b" >>
    /\ selectedDomains = << "domain_b", "domain_a" >>
    /\ domainInits = 1

\* ------------------------------------------------------------------- C29
\* C29: the handle in graphRef is a live handle; a handle that has been
\* destroyed is never changed again, by a data push, a width or height
\* update or a zoom-to-fit; while the canvas is unmounted a timeout or a
\* resize notification that fires changes no handle; and a timeout that
\* fires changes at most the handle in graphRef, whichever handle was in
\* graphRef when it was scheduled.
C29_NoUseAfterDestroy ==
    /\ [](graphRef # <<>> =>
            graphRef[1] \in 1..Len(handles) /\ handles[graphRef[1]].live)
    /\ [][\A h \in 1..Len(handles) :
            ~handles[h].live => handles'[h] = handles[h]]_vars
    /\ [][~canvasMounted /\ ~canvasMounted' =>
            UNCHANGED << handles, graphRef >>]_vars
    /\ [][Len(timers') < Len(timers) /\ canvasMounted' =>
            \A h \in 1..Len(handles) :
                handles'[h] # handles[h] =>
                    /\ graphRef = << h >> /\ handles[h].live
                    /\ Head(timers).inst = instance]_vars

\* After an unmount and a remount the new handle is live and has taken
\* data, while a timeout of the first instance, scheduled for the handle
\* that is now destroyed, is still pending.
C29_Witness ==
    /\ canvasMounted /\ instance = 2
    /\ graphRef # <<>> /\ handles[graphRef[1]].pushes >= 1
    /\ timers # <<>>
    /\ Head(timers).inst = 1
    /\ ~handles[Head(timers).handle].live

\* ------------------------------------------------------------------- C30
\* C30: the detail panel is visible exactly when a node is selected; when
\* the last of the two panel operations was a click on a node both are set,
\* when it was the close of the panel, or there was none yet, both are
\* clear, whatever other operations came after it; and a step that changes
\* the selected node or the visibility of the panel is a node click or the
\* close of the panel, so a domain toggle, a time-range change, a refresh, a
\* response or a recomputation of the filter changes neither, even when the
\* selected node is no longer in the displayed data.
C30_PanelFollowsSelection ==
    /\ [](detailVisible <=> selectedNode # <<>>)
    /\ [](lastSelectOp = "click" => selectedNode # <<>> /\ detailVisible)
    /\ [](lastSelectOp \in {"close", "none"} =>
            selectedNode = <<>> /\ ~detailVisible)
    /\ [][selectedNode' # selectedNode \/ detailVisible' # detailVisible =>
            \/ \E node \in PoolNodes : handleNodeClick(node)
            \/ onClose]_vars

\* A clicked node is still selected, with its panel open, while the
\* displayed dataset no longer contains it.
C30_Witness ==
    /\ lastSelectOp = "click"
    /\ selectedNode # <<>> /\ detailVisible
    /\ filteredData # <<>>
    /\ ~Includes(filteredData[1].nodes, selectedNode[1])

====
